---- MODULE Spec2Model ----
(***************************************************************************)
(* A model of DynamicDataStore (src/src/dynamic-data-store.ts): a Map from *)
(* derived index keys to records, with add / update / select / size /      *)
(* delete / clear / getIndex / parseIndex and the indicies accessor, the    *)
(* JSON encoding used for keys and clones (src/src/json-helper.ts), and    *)
(* the matchers and recordMatches (src/src/query.ts) and the result        *)
(* collection DynamicDataStoreRecords                                      *)
(* (src/src/dynamic-data-store-records.ts).                                *)
(*                                                                         *)
(* JavaScript values are records of one fixed shape                        *)
(*   [t, n, s, ks, e]                                                      *)
(* t  : the type tag ("number", "string", "boolean", "null", "undefined",  *)
(*      "array", "object", "Set", "Map", "RegExp", and the class of a      *)
(*      matcher: "Between", "GreaterThan", "LessThan", "Containing",       *)
(*      "Matching", "StartingWith", "EndingWith", "HavingValue", "Not")    *)
(* n  : the number (number), 1/0 (boolean)                                 *)
(* s  : the characters of a string, as a sequence of 1-character strings   *)
(* ks : the property names of an object, in property order                 *)
(* e  : the property values of an object (parallel to ks), the elements of *)
(*      an array or Set, the [key, value] pairs of a Map, <<min, max>> of  *)
(*      a Between (an omitted bound, -Infinity / Infinity, is Undefined),  *)
(*      the one field of any other matcher, the alternatives of a RegExp   *)
(* Strings produced by JSON.stringify are sequences of characters.         *)
(***************************************************************************)
EXTENDS Integers, Sequences, FiniteSets, TLC

\* ------------------------------------------------------------------------
\* Bounds of the model
\* ------------------------------------------------------------------------
MaxRecords == 2
\* the largest number of records a result collection is constructed with
MaxInputs == 3

\* ------------------------------------------------------------------------
\* JavaScript values
\* ------------------------------------------------------------------------
Undefined == [t |-> "undefined", n |-> 0, s |-> <<>>, ks |-> <<>>, e |-> <<>>]
Null == [t |-> "null", n |-> 0, s |-> <<>>, ks |-> <<>>, e |-> <<>>]
Num(n) == [t |-> "number", n |-> n, s |-> <<>>, ks |-> <<>>, e |-> <<>>]
Str(s) == [t |-> "string", n |-> 0, s |-> s, ks |-> <<>>, e |-> <<>>]
Bool(b) == [t |-> "boolean", n |-> IF b THEN 1 ELSE 0, s |-> <<>>, ks |-> <<>>, e |-> <<>>]
Arr(e) == [t |-> "array", n |-> 0, s |-> <<>>, ks |-> <<>>, e |-> e]
Obj(ks, e) == [t |-> "object", n |-> 0, s |-> <<>>, ks |-> ks, e |-> e]
SetOf(e) == [t |-> "Set", n |-> 0, s |-> <<>>, ks |-> <<>>, e |-> e]
MapOf(e) == [t |-> "Map", n |-> 0, s |-> <<>>, ks |-> <<>>, e |-> e]

\* `v == null` of JavaScript: true of null and of undefined
IsNullish(v) == v.t \in {"null", "undefined"}

\* typeof v is "number", "string" or "boolean"
IsPrimitive(v) == v.t \in {"number", "string", "boolean"}

\* v instanceof ValueMatcher: the classes that extend ValueMatcher.
\* HavingValue and Not implement it without extending it, so an instance
\* of them is not an instance of ValueMatcher
IsMatcher(v) ==
    v.t \in {"Between", "GreaterThan", "LessThan", "Containing", "Matching",
             "StartingWith", "EndingWith"}

\* the fields of an instance of a matcher class, in the order the
\* constructor assigns them; their values are the elements of e
InstanceKeys(v) ==
    CASE v.t = "Between" -> <<"min", "max">>
      [] v.t = "GreaterThan" -> <<"min">>
      [] v.t = "LessThan" -> <<"max">>
      [] v.t = "Containing" -> <<"expected">>
      [] v.t = "Matching" -> <<"regx">>
      [] v.t = "StartingWith" -> <<"start">>
      [] v.t = "EndingWith" -> <<"end">>
      [] v.t = "Not" -> <<"notExpected">>
      [] OTHER -> <<>>

\* the index of property k in object o, 0 when o has no such property
RECURSIVE IndexOfFrom(_, _, _)
IndexOfFrom(ks, k, i) ==
    IF i > Len(ks) THEN 0
    ELSE IF ks[i] = k THEN i
    ELSE IndexOfFrom(ks, k, i + 1)

IndexOf(ks, k) == IndexOfFrom(ks, k, 1)

HasProp(o, k) == IndexOf(o.ks, k) # 0

\* o[k]: undefined when o is null / undefined (the `?.` of the callers) or
\* has no property k
Get(o, k) ==
    IF o.t # "object" \/ ~HasProp(o, k) THEN Undefined
    ELSE o.e[IndexOf(o.ks, k)]

\* o with property k set to v: an existing property keeps its position,
\* a new one is appended (the property order of JavaScript objects)
SetProp(o, k, v) ==
    IF HasProp(o, k)
    THEN Obj(o.ks, [o.e EXCEPT ![IndexOf(o.ks, k)] = v])
    ELSE Obj(Append(o.ks, k), Append(o.e, v))

\* a !== b is ~StrictEq(a, b). Primitives compare by type and value; two
\* objects (arrays, Sets, Maps, plain objects) are equal only when they are
\* the same instance, and the objects a caller builds for a query or an
\* update are never instances held inside the store
StrictEq(a, b) ==
    /\ a.t = b.t
    /\ CASE a.t = "number" -> a.n = b.n
         [] a.t = "boolean" -> a.n = b.n
         [] a.t = "string" -> a.s = b.s
         [] a.t \in {"null", "undefined"} -> TRUE
         [] OTHER -> FALSE

\* ------------------------------------------------------------------------
\* JSON: JsonHelper.replacer / JsonHelper.reviver and JSON.stringify
\* ------------------------------------------------------------------------
DigitChars == <<"0", "1", "2", "3", "4", "5", "6", "7", "8", "9">>

RECURSIVE NatText(_)
NatText(n) ==
    IF n < 10 THEN <<DigitChars[n + 1]>>
    ELSE NatText(n \div 10) \o <<DigitChars[(n % 10) + 1]>>

\* the JSON text of a number
NumText(n) == IF n < 0 THEN <<"-">> \o NatText(0 - n) ELSE NatText(n)

\* the JSON text of a string. The strings of the model hold no quote,
\* backslash or control character, so no character needs an escape
Quote(s) == <<"\"">> \o s \o <<"\"">>

\* the characters of a property name
NameChars(k) ==
    CASE k = "dataType" -> <<"d", "a", "t", "a", "T", "y", "p", "e">>
      [] k = "value" -> <<"v", "a", "l", "u", "e">>
      [] k = "min" -> <<"m", "i", "n">>
      [] k = "max" -> <<"m", "a", "x">>
      [] k = "expected" -> <<"e", "x", "p", "e", "c", "t", "e", "d">>
      [] k = "regx" -> <<"r", "e", "g", "x">>
      [] k = "start" -> <<"s", "t", "a", "r", "t">>
      [] k = "end" -> <<"e", "n", "d">>
      [] k = "notExpected" ->
            <<"n", "o", "t", "E", "x", "p", "e", "c", "t", "e", "d">>
      [] OTHER -> <<k>>

\* the value JSON.stringify serialises in place of v when it is given
\* JsonHelper.replacer: a Map becomes {dataType: 'Map', value: entries},
\* a Set becomes {dataType: 'Set', value: Array.from(val.entries())} and
\* the entries of a Set are [element, element] pairs; JSON.stringify then
\* descends into the result, drops the undefined properties of an object
\* and writes null for the undefined elements of an array. An instance of
\* a matcher class is written as the object of its fields, an infinite
\* bound as null, a RegExp as {}
RECURSIVE replacer(_)
RECURSIVE ReplaceProps(_, _, _)
ReplaceProps(ks, e, i) ==
    IF i > Len(ks) THEN Obj(<<>>, <<>>)
    ELSE LET rest == ReplaceProps(ks, e, i + 1)
         IN  IF e[i].t = "undefined" THEN rest
             ELSE Obj(<<ks[i]>> \o rest.ks, <<replacer(e[i])>> \o rest.e)

SetEntries(v) ==
    Obj(<<"dataType", "value">>,
        <<Str(<<"S", "e", "t">>),
          Arr([i \in 1..Len(v.e) |->
                  Arr(<<replacer(v.e[i]), replacer(v.e[i])>>)])>>)

replacer(v) ==
    CASE v.t = "Map" ->
            Obj(<<"dataType", "value">>,
                <<Str(<<"M", "a", "p">>),
                  Arr([i \in 1..Len(v.e) |-> replacer(v.e[i])])>>)
      [] v.t = "Set" -> SetEntries(v)
      [] v.t = "array" ->
            Arr([i \in 1..Len(v.e) |->
                    IF v.e[i].t = "undefined" THEN Null ELSE replacer(v.e[i])])
      [] v.t = "object" -> ReplaceProps(v.ks, v.e, 1)
      [] v.t \in {"Between", "GreaterThan", "LessThan", "Containing",
                  "Matching", "StartingWith", "EndingWith", "HavingValue",
                  "Not", "RegExp"} ->
            Obj(InstanceKeys(v),
                [i \in 1..Len(InstanceKeys(v)) |->
                    IF IsNullish(v.e[i]) THEN Null ELSE replacer(v.e[i])])
      [] OTHER -> v

\* the text JSON.stringify writes for a value the replacer has been
\* applied to
RECURSIVE Text(_)
RECURSIVE JoinElems(_, _)
JoinElems(e, i) ==
    IF i > Len(e) THEN <<>>
    ELSE (IF i > 1 THEN <<",">> ELSE <<>>) \o Text(e[i]) \o JoinElems(e, i + 1)

RECURSIVE JoinProps(_, _, _)
JoinProps(ks, e, i) ==
    IF i > Len(ks) THEN <<>>
    ELSE (IF i > 1 THEN <<",">> ELSE <<>>)
         \o Quote(NameChars(ks[i])) \o <<":">> \o Text(e[i])
         \o JoinProps(ks, e, i + 1)

Text(v) ==
    CASE v.t = "number" -> NumText(v.n)
      [] v.t = "string" -> Quote(v.s)
      [] v.t = "boolean" ->
            IF v.n = 1 THEN <<"t", "r", "u", "e">> ELSE <<"f", "a", "l", "s", "e">>
      [] v.t = "array" -> <<"[">> \o JoinElems(v.e, 1) \o <<"]">>
      [] v.t = "object" -> <<"{">> \o JoinProps(v.ks, v.e, 1) \o <<"}">>
      [] OTHER -> <<"n", "u", "l", "l">>

\* JSON.stringify(v, JsonHelper.replacer)
stringify(v) == Text(replacer(v))

\* new Set(iterable): the elements in order, a repeated primitive kept once
RECURSIVE NewSetFrom(_, _)
NewSetFrom(e, i) ==
    IF i = 0 THEN <<>>
    ELSE LET before == NewSetFrom(e, i - 1)
         IN  IF \E j \in 1..Len(before) : StrictEq(before[j], e[i])
             THEN before
             ELSE Append(before, e[i])

NewSet(arr) == SetOf(NewSetFrom(arr.e, Len(arr.e)))

\* new Map(iterable): one entry per [key, value] element, a repeated
\* primitive key keeps its first position and takes the last value
RECURSIVE NewMapFrom(_, _)
NewMapFrom(e, i) ==
    IF i = 0 THEN <<>>
    ELSE LET before == NewMapFrom(e, i - 1)
             k == IF Len(e[i].e) >= 1 THEN e[i].e[1] ELSE Undefined
             v == IF Len(e[i].e) >= 2 THEN e[i].e[2] ELSE Undefined
             hit == {j \in 1..Len(before) : StrictEq(before[j].e[1], k)}
         IN  IF hit # {}
             THEN [before EXCEPT ![CHOOSE j \in hit : TRUE] = Arr(<<k, v>>)]
             ELSE Append(before, Arr(<<k, v>>))

NewMap(arr) == MapOf(NewMapFrom(arr.e, Len(arr.e)))

\* JSON.parse(text, JsonHelper.reviver) of the text of a value the replacer
\* has been applied to: the reviver is called bottom-up and turns every
\* object whose dataType is 'Map' / 'Set' into a Map / Set of its value
RECURSIVE reviver(_)
reviver(v) ==
    CASE v.t = "array" -> Arr([i \in 1..Len(v.e) |-> reviver(v.e[i])])
      [] v.t = "object" ->
            LET o == Obj(v.ks, [i \in 1..Len(v.e) |-> reviver(v.e[i])])
            IN  IF StrictEq(Get(o, "dataType"), Str(<<"M", "a", "p">>))
                THEN NewMap(Get(o, "value"))
                ELSE IF StrictEq(Get(o, "dataType"), Str(<<"S", "e", "t">>))
                THEN NewSet(Get(o, "value"))
                ELSE o
      [] OTHER -> v

\* JSON.parse(JSON.stringify(v, JsonHelper.replacer), JsonHelper.reviver):
\* parsing the text of a JSON value gives that value back, so the clone is
\* the reviver applied to what the replacer made of v
JsonClone(v) == reviver(replacer(v))

\* ------------------------------------------------------------------------
\* The Between matcher
\* ------------------------------------------------------------------------
\* between(min, max): an omitted bound is Undefined and stands for
\* -Infinity (min) or Infinity (max)
between(min, max) ==
    [t |-> "Between", n |-> 0, s |-> <<>>, ks |-> <<>>, e |-> <<min, max>>]

IsDigit(c) == \E d \in 1..10 : DigitChars[d] = c

RECURSIVE DigitsValue(_, _)
DigitsValue(s, i) ==
    IF i = 0 THEN 0
    ELSE 10 * DigitsValue(s, i - 1)
         + ((CHOOSE d \in 1..10 : DigitChars[d] = s[i]) - 1)

\* Number(actual) for a number, string or boolean: [nan, n]. A string of
\* the model is a number when it is empty (0) or an optional '-' followed
\* by digits; any other string is NaN
ToNumber(v) ==
    CASE v.t \in {"number", "boolean"} -> [nan |-> FALSE, n |-> v.n]
      [] v.t = "string" ->
            IF v.s = <<>> THEN [nan |-> FALSE, n |-> 0]
            ELSE IF \A i \in 1..Len(v.s) : IsDigit(v.s[i])
            THEN [nan |-> FALSE, n |-> DigitsValue(v.s, Len(v.s))]
            ELSE IF /\ Len(v.s) > 1
                    /\ v.s[1] = "-"
                    /\ \A i \in 2..Len(v.s) : IsDigit(v.s[i])
            THEN [nan |-> FALSE, n |-> 0 - DigitsValue(Tail(v.s), Len(v.s) - 1)]
            ELSE [nan |-> TRUE, n |-> 0]
      [] OTHER -> [nan |-> TRUE, n |-> 0]

\* this.min <= x && x <= this.max
InBounds(m, x) ==
    /\ IsNullish(m.e[1]) \/ m.e[1].n <= x
    /\ IsNullish(m.e[2]) \/ x <= m.e[2].n

\* Between.isMatch(actual)
BetweenIsMatch(m, actual) ==
    IF IsNullish(actual) THEN FALSE
    ELSE IF IsPrimitive(actual) /\ ~ToNumber(actual).nan
    THEN InBounds(m, ToNumber(actual).n)
    ELSE IF actual.t = "string" THEN InBounds(m, Len(actual.s))
    ELSE IF actual.t \in {"array", "Map", "Set"} THEN InBounds(m, Len(actual.e))
    ELSE FALSE

\* ------------------------------------------------------------------------
\* Object.keys and property access
\* ------------------------------------------------------------------------
\* Object.keys(v): the property names of an object, the indexes of an
\* array (the arrays of the model hold fewer than ten elements), the
\* fields of a matcher, nothing for a Set, a Map or a RegExp
ObjectKeys(v) ==
    CASE v.t = "object" -> v.ks
      [] v.t = "array" -> [j \in 1..Len(v.e) |-> DigitChars[j]]
      [] OTHER -> InstanceKeys(v)

\* v[k] for a value v that is not null or undefined
Prop(v, k) ==
    CASE v.t = "object" -> Get(v, k)
      [] v.t = "array" ->
            IF \E j \in 1..Len(v.e) : DigitChars[j] = k
            THEN v.e[CHOOSE j \in 1..Len(v.e) : DigitChars[j] = k]
            ELSE Undefined
      [] v.t = "string" ->
            IF \E j \in 1..Len(v.s) : DigitChars[j] = k
            THEN Str(<<v.s[CHOOSE j \in 1..Len(v.s) : DigitChars[j] = k]>>)
            ELSE Undefined
      [] IndexOf(InstanceKeys(v), k) # 0 -> v.e[IndexOf(InstanceKeys(v), k)]
      [] OTHER -> Undefined

\* ------------------------------------------------------------------------
\* The other matchers
\* ------------------------------------------------------------------------
greaterThan(min) ==
    [t |-> "GreaterThan", n |-> 0, s |-> <<>>, ks |-> <<>>, e |-> <<min>>]

lessThan(max) ==
    [t |-> "LessThan", n |-> 0, s |-> <<>>, ks |-> <<>>, e |-> <<max>>]

\* containing(expected): expected ?? ''
containing(expected) ==
    [t |-> "Containing", n |-> 0, s |-> <<>>, ks |-> <<>>,
     e |-> <<IF IsNullish(expected) THEN Str(<<>>) ELSE expected>>]

\* a RegExp without flags that is a group of literal alternatives, such
\* as /(a|b)/: e holds the alternatives, and the RegExp matches a string
\* when the string holds one of them. /.*/ is the empty alternative
Regx(alts) == [t |-> "RegExp", n |-> 0, s |-> <<>>, ks |-> <<>>, e |-> alts]

\* matching(regx): regx ?? /.*/
matching(regx) ==
    [t |-> "Matching", n |-> 0, s |-> <<>>, ks |-> <<>>,
     e |-> <<IF IsNullish(regx) THEN Regx(<<Str(<<>>)>>) ELSE regx>>]

\* startingWith(start): start ?? ''
startingWith(start) ==
    [t |-> "StartingWith", n |-> 0, s |-> <<>>, ks |-> <<>>,
     e |-> <<IF IsNullish(start) THEN Str(<<>>) ELSE start>>]

\* endingWith(end): end ?? ''
endingWith(end) ==
    [t |-> "EndingWith", n |-> 0, s |-> <<>>, ks |-> <<>>,
     e |-> <<IF IsNullish(end) THEN Str(<<>>) ELSE end>>]

havingValue == [t |-> "HavingValue", n |-> 0, s |-> <<>>, ks |-> <<>>, e |-> <<>>]

not(notExpected) ==
    [t |-> "Not", n |-> 0, s |-> <<>>, ks |-> <<>>, e |-> <<notExpected>>]

\* typeof v
TypeOf(v) ==
    CASE v.t \in {"number", "string", "boolean", "undefined"} -> v.t
      [] OTHER -> "object"

\* String(v): an array is its elements joined by ',', null and undefined
\* elements left empty
RECURSIVE ToStr(_)
RECURSIVE JoinStr(_, _)
JoinStr(e, i) ==
    IF i > Len(e) THEN <<>>
    ELSE (IF i > 1 THEN <<",">> ELSE <<>>)
         \o (IF IsNullish(e[i]) THEN <<>> ELSE ToStr(e[i]))
         \o JoinStr(e, i + 1)

ToStr(v) ==
    CASE v.t = "number" -> NumText(v.n)
      [] v.t = "string" -> v.s
      [] v.t = "boolean" ->
            IF v.n = 1 THEN <<"t", "r", "u", "e">> ELSE <<"f", "a", "l", "s", "e">>
      [] v.t = "null" -> <<"n", "u", "l", "l">>
      [] v.t = "undefined" -> <<"u", "n", "d", "e", "f", "i", "n", "e", "d">>
      [] v.t = "array" -> JoinStr(v.e, 1)
      [] OTHER -> <<"[", "o", "b", "j", "e", "c", "t", " ", "O", "b", "j", "e", "c", "t", "]">>

\* s.includes(part), s.startsWith(part), s.endsWith(part)
Includes(s, part) ==
    \E i \in 0..(Len(s) - Len(part)) : SubSeq(s, i + 1, i + Len(part)) = part

StartsWith(s, part) ==
    Len(part) <= Len(s) /\ SubSeq(s, 1, Len(part)) = part

EndsWith(s, part) ==
    Len(part) <= Len(s) /\ SubSeq(s, Len(s) - Len(part) + 1, Len(s)) = part

\* regx.test(s)
test(regx, s) == \E k \in 1..Len(regx.e) : Includes(s, regx.e[k].s)

\* the elements of an array, Array.from(actual.values()) of a Set or a Map
Values(actual) ==
    IF actual.t = "Map"
    THEN [i \in 1..Len(actual.e) |-> actual.e[i].e[2]]
    ELSE actual.e

\* arr.includes(v)
ArrayIncludes(arr, v) == \E i \in 1..Len(arr) : StrictEq(arr[i], v)

\* GreaterThan.isMatch with this.min <= x in place of this.min < x
GreaterThanIsMatchInclusive(m, actual) ==
    LET above(x) == IsNullish(m.e[1]) \/ m.e[1].n <= x
    IN  IF IsNullish(actual) THEN FALSE
        ELSE IF IsPrimitive(actual) /\ ~ToNumber(actual).nan
        THEN above(ToNumber(actual).n)
        ELSE IF actual.t = "string" THEN above(Len(actual.s))
        ELSE IF actual.t \in {"array", "Map", "Set"} THEN above(Len(actual.e))
        ELSE FALSE

\* GreaterThan.isMatch(actual)
GreaterThanIsMatch(m, actual) ==
    LET above(x) == IsNullish(m.e[1]) \/ m.e[1].n < x
    IN  IF IsNullish(actual) THEN FALSE
        ELSE IF IsPrimitive(actual) /\ ~ToNumber(actual).nan
        THEN above(ToNumber(actual).n)
        ELSE IF actual.t = "string" THEN above(Len(actual.s))
        ELSE IF actual.t \in {"array", "Map", "Set"} THEN above(Len(actual.e))
        ELSE FALSE

\* LessThan.isMatch(actual)
LessThanIsMatch(m, actual) ==
    LET below(x) == IsNullish(m.e[1]) \/ x < m.e[1].n
    IN  IF IsNullish(actual) THEN FALSE
        ELSE IF IsPrimitive(actual) /\ ~ToNumber(actual).nan
        THEN below(ToNumber(actual).n)
        ELSE IF actual.t = "string" THEN below(Len(actual.s))
        ELSE IF actual.t \in {"array", "Map", "Set"} THEN below(Len(actual.e))
        ELSE FALSE

\* Containing._objectContains(obj): some property of obj, or of an object
\* inside it, is === expected
RECURSIVE objectContains(_, _)
objectContains(obj, expected) ==
    IF IsNullish(obj) THEN FALSE
    ELSE \E i \in 1..Len(ObjectKeys(obj)) :
            LET v == Prop(obj, ObjectKeys(obj)[i])
            IN  \/ TypeOf(v) = TypeOf(expected) /\ StrictEq(v, expected)
                \/ TypeOf(v) = "object" /\ objectContains(v, expected)

\* Containing.isMatch returning true as soon as one element of expected is
\* found
ContainingIsMatchSome(m, actual) ==
    LET expected == m.e[1]
    IN  IF IsNullish(actual) THEN FALSE
        ELSE IF actual.t = "number" /\ expected.t = "number"
        THEN actual.n - expected.n >= 0
        ELSE IF actual.t = "string" /\ IsPrimitive(expected)
        THEN Includes(actual.s, ToStr(expected))
        ELSE IF actual.t = "string" /\ expected.t = "array"
        THEN \E i \in 1..Len(expected.e) : Includes(actual.s, ToStr(expected.e[i]))
        ELSE IF actual.t \in {"array", "Map", "Set"}
        THEN IF expected.t = "array"
             THEN \E i \in 1..Len(expected.e) :
                     ArrayIncludes(Values(actual), expected.e[i])
             ELSE ArrayIncludes(Values(actual), expected)
        ELSE IF actual.t = "object" THEN objectContains(actual, expected)
        ELSE FALSE

\* Containing.isMatch(actual)
ContainingIsMatch(m, actual) ==
    LET expected == m.e[1]
    IN  IF IsNullish(actual) THEN FALSE
        ELSE IF actual.t = "number" /\ expected.t = "number"
        THEN actual.n - expected.n >= 0
        ELSE IF actual.t = "string" /\ IsPrimitive(expected)
        THEN Includes(actual.s, ToStr(expected))
        ELSE IF actual.t = "string" /\ expected.t = "array"
        THEN \A i \in 1..Len(expected.e) : Includes(actual.s, ToStr(expected.e[i]))
        ELSE IF actual.t \in {"array", "Map", "Set"}
        THEN IF expected.t = "array"
             THEN \A i \in 1..Len(expected.e) :
                     ArrayIncludes(Values(actual), expected.e[i])
             ELSE ArrayIncludes(Values(actual), expected)
        ELSE IF actual.t = "object" THEN objectContains(actual, expected)
        ELSE FALSE

RECURSIVE isMatch(_, _)

\* Matching.isMatch with some in place of every
MatchingIsMatchSome(m, actual) ==
    IF IsNullish(actual) THEN FALSE
    ELSE IF IsPrimitive(actual) THEN test(m.e[1], ToStr(actual))
    ELSE IF actual.t \in {"array", "Map", "Set"}
    THEN \E i \in 1..Len(Values(actual)) : isMatch(m, Values(actual)[i])
    ELSE FALSE

\* Matching.isMatch(actual): every element of a collection is given to
\* isMatch of this matcher
MatchingIsMatch(m, actual) ==
    IF IsNullish(actual) THEN FALSE
    ELSE IF IsPrimitive(actual) THEN test(m.e[1], ToStr(actual))
    ELSE IF actual.t \in {"array", "Map", "Set"}
    THEN \A i \in 1..Len(Values(actual)) : isMatch(m, Values(actual)[i])
    ELSE FALSE

\* StartingWith.isMatch(actual)
StartingWithIsMatch(m, actual) ==
    IF IsNullish(actual) THEN FALSE
    ELSE IF IsPrimitive(actual) THEN StartsWith(ToStr(actual), ToStr(m.e[1]))
    ELSE IF actual.t \in {"array", "Map", "Set"}
    THEN /\ Len(Values(actual)) > 0
         /\ StrictEq(Values(actual)[1], m.e[1])
    ELSE FALSE

\* EndingWith.isMatch(actual)
EndingWithIsMatch(m, actual) ==
    IF IsNullish(actual) THEN FALSE
    ELSE IF IsPrimitive(actual) THEN EndsWith(ToStr(actual), ToStr(m.e[1]))
    ELSE IF actual.t \in {"array", "Map", "Set"}
    THEN /\ Len(Values(actual)) > 0
         /\ StrictEq(Values(actual)[Len(Values(actual))], m.e[1])
    ELSE FALSE

\* HavingValue.isMatch with actual !== undefined in place of actual != null
HavingValueIsMatchStrict(m, actual) == actual.t # "undefined"

\* HavingValue.isMatch(actual)
HavingValueIsMatch(m, actual) == ~IsNullish(actual)

\* Not.isMatch that is false for null and undefined
NotIsMatchGuarded(m, actual) ==
    ~IsNullish(actual) /\ ~isMatch(m.e[1], actual)

\* Not.isMatch(actual)
NotIsMatch(m, actual) == ~isMatch(m.e[1], actual)

\* matcher.isMatch(actual); isMatch of the base class ValueMatcher returns
\* false
isMatch(m, actual) ==
    CASE m.t = "Between" -> BetweenIsMatch(m, actual)
      [] m.t = "GreaterThan" -> GreaterThanIsMatch(m, actual)
      [] m.t = "LessThan" -> LessThanIsMatch(m, actual)
      [] m.t = "Containing" -> ContainingIsMatch(m, actual)
      [] m.t = "Matching" -> MatchingIsMatch(m, actual)
      [] m.t = "StartingWith" -> StartingWithIsMatch(m, actual)
      [] m.t = "EndingWith" -> EndingWithIsMatch(m, actual)
      [] m.t = "HavingValue" -> HavingValueIsMatch(m, actual)
      [] m.t = "Not" -> NotIsMatch(m, actual)
      [] OTHER -> FALSE

\* ------------------------------------------------------------------------
\* recordMatches of Query.filterBy
\* ------------------------------------------------------------------------
\* recordMatches(query, record) from property i of the query on: a matcher
\* by isMatch, an object by recordMatches on the record's property unless
\* that is null or undefined, anything else by ===
RECURSIVE RecordMatchesFrom(_, _, _)
RecordMatchesFrom(query, record, i) ==
    IF i > Len(ObjectKeys(query)) THEN TRUE
    ELSE LET prop == ObjectKeys(query)[i]
             q == Prop(query, prop)
             actual == Prop(record, prop)
         IN  /\ IF IsMatcher(q) THEN isMatch(q, actual)
                ELSE IF TypeOf(q) = "object" /\ q.t # "null"
                THEN ~IsNullish(actual) /\ RecordMatchesFrom(q, actual, 1)
                ELSE StrictEq(q, actual)
             /\ RecordMatchesFrom(query, record, i + 1)

recordMatches(query, record) == RecordMatchesFrom(query, record, 1)

\* Query.filterBy(query, ...records): the instances that match, each with
\* its position in records as ref; every instance when there is no query
filterBy(query, records) ==
    LET hit == SelectSeq([i \in 1..Len(records) |-> [at |-> i, rec |-> records[i]]],
                         LAMBDA en : IsNullish(query) \/ recordMatches(query, en.rec))
    IN  [i \in 1..Len(hit) |-> [ref |-> NatText(hit[i].at), rec |-> hit[i].rec]]

\* ------------------------------------------------------------------------
\* String.prototype.split and JSON.parse, as parseIndex uses them
\* ------------------------------------------------------------------------
\* does text s hold the characters lit at position i
LiteralAt(s, i, lit) ==
    /\ i + Len(lit) - 1 <= Len(s)
    /\ SubSeq(s, i, i + Len(lit) - 1) = lit

\* s.split(d): the segments of s between the occurrences of d, found from
\* left to right; an empty d splits s into its characters
RECURSIVE SplitFrom(_, _, _, _)
SplitFrom(s, d, i, cur) ==
    IF i > Len(s) THEN <<cur>>
    ELSE IF LiteralAt(s, i, d)
    THEN <<cur>> \o SplitFrom(s, d, i + Len(d), <<>>)
    ELSE SplitFrom(s, d, i + 1, Append(cur, s[i]))

Split(s, d) ==
    IF d = <<>> THEN [i \in 1..Len(s) |-> <<s[i]>>]
    ELSE SplitFrom(s, d, 1, <<>>)

\* the property name written with the characters chars (the property names
\* of the model are single characters, dataType, value, min and max)
NameOf(chars) ==
    CASE chars = <<"d", "a", "t", "a", "T", "y", "p", "e">> -> "dataType"
      [] chars = <<"v", "a", "l", "u", "e">> -> "value"
      [] chars = <<"m", "i", "n">> -> "min"
      [] chars = <<"m", "a", "x">> -> "max"
      [] chars = <<"e", "x", "p", "e", "c", "t", "e", "d">> -> "expected"
      [] chars = <<"r", "e", "g", "x">> -> "regx"
      [] chars = <<"s", "t", "a", "r", "t">> -> "start"
      [] chars = <<"e", "n", "d">> -> "end"
      [] chars = <<"n", "o", "t", "E", "x", "p", "e", "c", "t", "e", "d">> ->
            "notExpected"
      [] chars = <<>> -> ""
      [] OTHER -> chars[1]

\* the result of a parse that throws a SyntaxError
ParseError == [ok |-> FALSE, v |-> Undefined, next |-> 0]

\* the position of the quote that closes a string whose first character is
\* at i, 0 when the text ends first
RECURSIVE ScanString(_, _)
ScanString(s, i) ==
    IF i > Len(s) THEN 0
    ELSE IF s[i] = "\"" THEN i
    ELSE ScanString(s, i + 1)

\* the first position from i on that holds no digit
RECURSIVE ScanDigits(_, _)
ScanDigits(s, i) ==
    IF i > Len(s) \/ ~IsDigit(s[i]) THEN i
    ELSE ScanDigits(s, i + 1)

\* the digits at i..j-1 as a JSON number: no digit, or a leading zero
\* before another digit, is a SyntaxError
ParseDigits(s, i, sign) ==
    LET j == ScanDigits(s, i)
    IN  IF j = i \/ (s[i] = "0" /\ j > i + 1) THEN ParseError
        ELSE [ok |-> TRUE,
              v |-> Num(sign * DigitsValue(SubSeq(s, i, j - 1), j - i)),
              next |-> j]

\* the JSON value that starts at position i of text s: [ok, v, next], next
\* the position after it (the texts of the model hold no white space, no
\* escape, no fraction and no exponent)
RECURSIVE ParseValue(_, _)
RECURSIVE ParseElems(_, _, _)
RECURSIVE ParseMembers(_, _, _)
ParseValue(s, i) ==
    IF i > Len(s) THEN ParseError
    ELSE IF s[i] = "\""
    THEN LET j == ScanString(s, i + 1)
         IN  IF j = 0 THEN ParseError
             ELSE [ok |-> TRUE, v |-> Str(SubSeq(s, i + 1, j - 1)), next |-> j + 1]
    ELSE IF IsDigit(s[i]) THEN ParseDigits(s, i, 1)
    ELSE IF s[i] = "-" THEN ParseDigits(s, i + 1, -1)
    ELSE IF LiteralAt(s, i, <<"t", "r", "u", "e">>)
    THEN [ok |-> TRUE, v |-> Bool(TRUE), next |-> i + 4]
    ELSE IF LiteralAt(s, i, <<"f", "a", "l", "s", "e">>)
    THEN [ok |-> TRUE, v |-> Bool(FALSE), next |-> i + 5]
    ELSE IF LiteralAt(s, i, <<"n", "u", "l", "l">>)
    THEN [ok |-> TRUE, v |-> Null, next |-> i + 4]
    ELSE IF s[i] = "["
    THEN IF LiteralAt(s, i + 1, <<"]">>)
         THEN [ok |-> TRUE, v |-> Arr(<<>>), next |-> i + 2]
         ELSE ParseElems(s, i + 1, <<>>)
    ELSE IF s[i] = "{"
    THEN IF LiteralAt(s, i + 1, <<"}">>)
         THEN [ok |-> TRUE, v |-> Obj(<<>>, <<>>), next |-> i + 2]
         ELSE ParseMembers(s, i + 1, Obj(<<>>, <<>>))
    ELSE ParseError

\* the elements of an array from position i on, acc those already parsed
ParseElems(s, i, acc) ==
    LET r == ParseValue(s, i)
    IN  IF ~r.ok THEN ParseError
        ELSE IF LiteralAt(s, r.next, <<",">>)
        THEN ParseElems(s, r.next + 1, Append(acc, r.v))
        ELSE IF LiteralAt(s, r.next, <<"]">>)
        THEN [ok |-> TRUE, v |-> Arr(Append(acc, r.v)), next |-> r.next + 1]
        ELSE ParseError

\* the members of an object from position i on, o the object so far
ParseMembers(s, i, o) ==
    IF ~LiteralAt(s, i, <<"\"">>) THEN ParseError
    ELSE LET j == ScanString(s, i + 1)
         IN  IF j = 0 \/ ~LiteralAt(s, j + 1, <<":">>) THEN ParseError
             ELSE LET r == ParseValue(s, j + 2)
                      grown == SetProp(o, NameOf(SubSeq(s, i + 1, j - 1)), r.v)
                  IN  IF ~r.ok THEN ParseError
                      ELSE IF LiteralAt(s, r.next, <<",">>)
                      THEN ParseMembers(s, r.next + 1, grown)
                      ELSE IF LiteralAt(s, r.next, <<"}">>)
                      THEN [ok |-> TRUE, v |-> grown, next |-> r.next + 1]
                      ELSE ParseError

\* JSON.parse(s) without a reviver: [ok, v], ok false for a SyntaxError
JSONparse(s) ==
    LET r == ParseValue(s, 1)
    IN  IF r.ok /\ r.next = Len(s) + 1
        THEN [ok |-> TRUE, v |-> r.v]
        ELSE [ok |-> FALSE, v |-> Undefined]

\* ------------------------------------------------------------------------
\* The store
\* ------------------------------------------------------------------------
VARIABLES
    indicies,   \* _indicies: the index fields, in configured order
    delim,      \* _delim: the key delimiter
    store,      \* _store: the Map, as the sequence of its entries
                \* [key, rec] in iteration order
    op,         \* the operation that has just returned, "idle" once the
                \* caller is done with what it returned
    arg,        \* its record / updates argument (Undefined when it has none)
    qry,        \* its query argument (Undefined when it has none)
    ret,        \* what it returned, as a number: add 1/0 for true/false,
                \* update and size the count, select / delete / clear the
                \* number of records returned
    out,        \* the records it returned, [ref, rec]: ref is the key of
                \* the Map entry whose record instance was returned (for
                \* filterBy its position in the records given), <<>> for
                \* an instance made by the operation
    pre,        \* _store as it was when the operation was called
    arr,        \* the array the indicies accessor returned: [live, val, read],
                \* live when it is the instance the store holds, val its
                \* elements now, read its elements when it was returned
    txt,        \* the key getIndex returned or parseIndex was given
    err,        \* the operation threw an Error
    coll,       \* the DynamicDataStoreRecords the caller holds: [recs, was,
                \* order, keys], recs its elements, was its elements when
                \* the last operation on it was called, order and keys the
                \* arguments of the last orderBy
    mat         \* the matcher whose isMatch has just returned (arg is the
                \* value it was given, ret 1/0 what it returned)

vars == <<indicies, delim, store, op, arg, qry, ret, out, pre, arr, txt, err,
          coll, mat>>

\* Map.prototype.has / get / set / delete on the sequence of entries
RECURSIVE SlotFrom(_, _, _)
SlotFrom(st, key, i) ==
    IF i > Len(st) THEN 0
    ELSE IF st[i].key = key THEN i
    ELSE SlotFrom(st, key, i + 1)

Slot(st, key) == SlotFrom(st, key, 1)

MapHas(st, key) == Slot(st, key) # 0

MapGet(st, key) == IF MapHas(st, key) THEN st[Slot(st, key)].rec ELSE Undefined

MapSet(st, key, rec) ==
    IF MapHas(st, key)
    THEN [st EXCEPT ![Slot(st, key)] = [key |-> key, rec |-> rec]]
    ELSE Append(st, [key |-> key, rec |-> rec])

MapDelete(st, key) ==
    IF MapHas(st, key)
    THEN SubSeq(st, 1, Slot(st, key) - 1) \o SubSeq(st, Slot(st, key) + 1, Len(st))
    ELSE st

\* the indicies accessor handing out the array the store holds
getIndiciesLive(ind) == [live |-> TRUE, val |-> ind]

\* get indicies(): a new array with the elements of _indicies
getIndicies(ind) == [live |-> FALSE, val |-> ind]

\* hasAllIndexProperties(record)
hasAllIndexProperties(record) ==
    IF Len(indicies) > 0
    THEN \A i \in 1..Len(indicies) :
            /\ ~IsNullish(Get(record, indicies[i]))
            /\ ~IsMatcher(Get(record, indicies[i]))
    ELSE FALSE

RECURSIVE JoinIndex(_, _)
JoinIndex(record, i) ==
    IF i > Len(indicies) THEN <<>>
    ELSE (IF i > 1 THEN delim ELSE <<>>)
         \o stringify(Get(record, indicies[i]))
         \o JoinIndex(record, i + 1)

\* getIndex(record): the values of the index fields joined by the
\* delimiter when the record has them all, otherwise the JSON text of the
\* whole record
getIndex(record) ==
    IF hasAllIndexProperties(record) THEN JoinIndex(record, 1)
    ELSE stringify(record)

\* the loop of parseIndex over the index fields: [err, parsed], err when
\* JSON.parse throws
RECURSIVE ParseLoop(_, _, _)
ParseLoop(values, parsed, i) ==
    IF i > Len(indicies) THEN [err |-> FALSE, parsed |-> parsed]
    ELSE LET val == JSONparse(values[i])
         IN  IF ~val.ok THEN [err |-> TRUE, parsed |-> Undefined]
             ELSE ParseLoop(values, SetProp(parsed, indicies[i], val.v), i + 1)

\* parseIndex filling in the fields it has segments for, without the test
\* of the number of segments
parseIndexLenient(index) ==
    LET values == Split(index, delim)
        n == IF Len(values) < Len(indicies) THEN Len(values) ELSE Len(indicies)
        sub == [i \in 1..n |-> JSONparse(values[i])]
    IN  IF \E i \in 1..n : ~sub[i].ok THEN [err |-> TRUE, parsed |-> Undefined]
        ELSE [err |-> FALSE,
              parsed |-> Obj(SubSeq(indicies, 1, n), [i \in 1..n |-> sub[i].v])]

\* parseIndex(index): [err, parsed]; it throws when the number of segments
\* is not the number of index fields
parseIndex(index) ==
    LET values == Split(index, delim)
    IN  IF Len(values) = Len(indicies)
        THEN ParseLoop(values, Obj(<<>>, <<>>), 1)
        ELSE [err |-> TRUE, parsed |-> Undefined]

\* the scan of _performQuery: does stored record r pass every property of
\* the query (a matcher by isMatch, anything else by ===)
RECURSIVE PassesFrom(_, _, _)
PassesFrom(query, r, i) ==
    IF i > Len(query.ks) THEN TRUE
    ELSE LET q == query.e[i]
             actual == Get(r, query.ks[i])
         IN  IF IsMatcher(q)
             THEN isMatch(q, actual) /\ PassesFrom(query, r, i + 1)
             ELSE StrictEq(q, actual) /\ PassesFrom(query, r, i + 1)

RECURSIVE FilterFrom(_, _, _)
FilterFrom(st, query, i) ==
    IF i > Len(st) THEN <<>>
    ELSE (IF PassesFrom(query, st[i].rec, 1)
          THEN <<[ref |-> st[i].key, rec |-> st[i].rec]>>
          ELSE <<>>)
         \o FilterFrom(st, query, i + 1)

\* _performQuery whose filter rejects a record once it has gone through
\* every property of the query, and that finds nothing without a query
performQueryRejecting(st, query) ==
    IF query.t # "undefined" /\ hasAllIndexProperties(query)
    THEN LET key == getIndex(query)
         IN  IF ~IsNullish(MapGet(st, key))
             THEN <<[ref |-> key, rec |-> MapGet(st, key)]>>
             ELSE <<>>
    ELSE <<>>

\* _performQuery(query) on the Map st: the record instances found, each
\* with the key of the entry that holds it. A query with a literal for
\* every index field is answered by Map.get of its key, any other query by
\* a scan, and no query by every record
performQuery(st, query) ==
    IF query.t # "undefined"
    THEN IF hasAllIndexProperties(query)
         THEN LET key == getIndex(query)
              IN  IF ~IsNullish(MapGet(st, key))
                  THEN <<[ref |-> key, rec |-> MapGet(st, key)]>>
                  ELSE <<>>
         ELSE FilterFrom(st, query, 1)
    ELSE [i \in 1..Len(st) |-> [ref |-> st[i].key, rec |-> st[i].rec]]

\* add without the test that the key is free
addOverKey(st, record) ==
    LET key == getIndex(record)
    IN  IF key # <<>>
        THEN [store |-> MapSet(st, key, record), ret |-> 1]
        ELSE [store |-> st, ret |-> 0]

\* add(record): [store, ret]
add(st, record) ==
    LET key == getIndex(record)
    IN  IF key # <<>> /\ ~MapHas(st, key)
        THEN [store |-> MapSet(st, key, record), ret |-> 1]
        ELSE [store |-> st, ret |-> 0]

\* {...toBeUpdated, ...updates}
RECURSIVE SpreadFrom(_, _, _)
SpreadFrom(o, updates, i) ==
    IF i > Len(updates.ks) THEN o
    ELSE SpreadFrom(SetProp(o, updates.ks[i], updates.e[i]), updates, i + 1)

Spread(toBeUpdated, updates) == SpreadFrom(toBeUpdated, updates, 1)

\* the key update stores the merged record under: the index of the
\* record as it was found
UpdateKey(toBeUpdated, updates) == getIndex(toBeUpdated)

\* the loop of update over shouldBeUpdatedArr: [store, ret]
RECURSIVE UpdateLoop(_, _, _, _)
UpdateLoop(acc, found, updates, i) ==
    IF i > Len(found) THEN acc
    ELSE LET key == UpdateKey(found[i].rec, updates)
         IN  IF key # <<>>
             THEN UpdateLoop([store |-> MapSet(acc.store, key,
                                               Spread(found[i].rec, updates)),
                              ret |-> acc.ret + 1],
                             found, updates, i + 1)
             ELSE UpdateLoop(acc, found, updates, i + 1)

\* update storing the updates object as a new record when it finds no
\* record to update
updateOrInsert(st, updates, query) ==
    LET found == performQuery(st, IF IsNullish(query) THEN updates ELSE query)
    IN  IF updates.t = "undefined" THEN [store |-> st, ret |-> 0]
        ELSE IF found = <<>>
        THEN [store |-> MapSet(st, getIndex(updates), updates), ret |-> 1]
        ELSE UpdateLoop([store |-> st, ret |-> 0], found, updates, 1)

\* update(updates, query): [store, ret]
update(st, updates, query) ==
    IF updates.t # "undefined"
    THEN UpdateLoop([store |-> st, ret |-> 0],
                    performQuery(st, IF IsNullish(query) THEN updates ELSE query),
                    updates, 1)
    ELSE [store |-> st, ret |-> 0]

\* select handing out the record instances found instead of clones
selectInstances(st, query) == performQuery(st, query)

\* select(query): clones of the records found, none of them an instance
\* held by the Map
select(st, query) ==
    LET records == performQuery(st, query)
    IN  [i \in 1..Len(records) |->
            [ref |-> <<>>, rec |-> JsonClone(records[i].rec)]]

\* size counting the whole Map whatever the query
sizeOfTable(st, query) == Len(st)

\* size(query)
size(st, query) == Len(performQuery(st, query))

\* the loop of delete over found
RECURSIVE DeleteLoop(_, _, _)
DeleteLoop(st, found, i) ==
    IF i > Len(found) THEN st
    ELSE LET key == getIndex(found[i].rec)
         IN  DeleteLoop(IF key # <<>> THEN MapDelete(st, key) ELSE st,
                        found, i + 1)

\* delete(query): [store, out], out the record instances found
delete(st, query) ==
    LET found == performQuery(st, query)
    IN  [store |-> DeleteLoop(st, found, 1), out |-> found]

\* clear reading the records after it has emptied the Map
clearThenRead(st) == [store |-> <<>>, out |-> <<>>]

\* clear(): [store, out]
clear(st) ==
    [store |-> <<>>,
     out |-> [i \in 1..Len(st) |-> [ref |-> st[i].key, rec |-> st[i].rec]]]

\* ------------------------------------------------------------------------
\* The inputs the operations are called with
\* ------------------------------------------------------------------------
\* records offered to add: fields u, a and s are the ones used as index
\* fields, x is a data field, s holds a Set, o an object; {x, u} is {u, x}
\* with its fields written in the other order
AddRecords ==
    { Obj(<<"u", "a", "x">>, <<Str(<<"a">>), Bool(TRUE), Num(1)>>),
      Obj(<<"u", "a", "x">>, <<Str(<<"b">>), Bool(TRUE), Num(1)>>),
      Obj(<<"u", "a", "x">>, <<Str(<<"a">>), Bool(TRUE), Num(2)>>),
      Obj(<<"u", "a", "s">>, <<Str(<<"b">>), Bool(FALSE), SetOf(<<Num(1)>>)>>),
      Obj(<<"u", "x">>, <<Str(<<"a">>), Num(1)>>),
      Obj(<<"x">>, <<Num(1)>>),
      Obj(<<"x", "u">>, <<Num(1), Str(<<"a">>)>>),
      Obj(<<"u", "a", "o">>,
          <<Str(<<"a">>), Bool(FALSE), Obj(<<"u">>, <<Str(<<"b">>)>>)>>) }

\* updates objects
UpdateRecords ==
    { Obj(<<"x">>, <<Num(2)>>),
      Obj(<<"u">>, <<Str(<<"b">>)>>),
      Obj(<<"u", "a", "x">>, <<Str(<<"a">>), Bool(TRUE), Num(2)>>) }

\* queries; Undefined is a call without a query, the first object is the
\* empty query {}
Queries ==
    { Undefined,
      Obj(<<>>, <<>>),
      Obj(<<"x">>, <<Num(1)>>),
      Obj(<<"u">>, <<Str(<<"b">>)>>),
      Obj(<<"u", "a">>, <<Str(<<"a">>), Bool(TRUE)>>),
      Obj(<<"u", "a", "x">>, <<Str(<<"a">>), Bool(TRUE), Num(2)>>),
      Obj(<<"x">>, <<between(Num(2), Num(3))>>),
      Obj(<<"o">>, <<Obj(<<"u">>, <<Str(<<"b">>)>>)>>) }

\* the queries filterBy is called with: those above, and queries with the
\* matchers havingValue and not
FilterQueries ==
    Queries
    \cup { Obj(<<"y">>, <<havingValue>>),
           Obj(<<"x">>, <<not(between(Num(2), Num(3)))>>) }

\* the partial records getIndex is called with, and whose keys parseIndex
\* is called with: the records offered to add, a record whose index value
\* holds the delimiter, one whose index field is null, one whose index
\* field is a matcher
IndexInputs ==
    AddRecords
    \cup { Obj(<<"u", "a">>, <<Str(<<"a", "-", "b">>), Bool(TRUE)>>),
           Obj(<<"u", "a">>, <<Null, Bool(TRUE)>>),
           Obj(<<"u", "a">>, <<between(Num(2), Num(3)), Bool(TRUE)>>) }

\* keys given to parseIndex that getIndex did not make
MalformedKeys ==
    { <<>>,
      <<"x">>,
      <<"1", "-">>,
      <<"1", "-", "2", "-", "3">> }

\* the assignments a caller makes to a record it got from select
Assignments ==
    { [k |-> "u", v |-> Str(<<"b">>)],
      [k |-> "x", v |-> Num(9)] }

\* the records result collections are constructed with: x and y are the
\* fields they are ordered by, u is an index field
CollRecords ==
    { Obj(<<"u", "x", "y">>, <<Str(<<"a">>), Num(1), Num(9)>>),
      Obj(<<"u", "x", "y">>, <<Str(<<"b">>), Num(12), Num(0)>>),
      Obj(<<"u", "x">>, <<Str(<<"a">>), Num(2)>>),
      Obj(<<"u", "x", "y">>, <<Str(<<"b">>), Null, Str(<<"a">>)>>),
      Obj(<<"x", "y">>, <<Bool(TRUE), Num(0)>>),
      Obj(<<"u", "x">>, <<Str(<<"c">>), Obj(<<"u">>, <<Str(<<"b">>)>>)>>) }

\* the inputs of the constructor: up to MaxInputs records, a record may be
\* given more than once
Inputs ==
    UNION {[1..n -> CollRecords] : n \in 0..MaxInputs}

\* the keys orderBy is called with
OrderKeys ==
    { <<>>, <<"x">>, <<"y">>, <<"x", "y">>, <<"y", "x">> }

\* the matchers isMatch is called on
Matchers ==
    { between(Num(1), Num(2)),
      between(Undefined, Num(2)),
      between(Num(1), Undefined),
      between(Undefined, Undefined),
      greaterThan(Num(1)),
      greaterThan(Undefined),
      lessThan(Num(2)),
      lessThan(Undefined),
      containing(Undefined),
      containing(Num(1)),
      containing(Str(<<"a">>)),
      containing(Arr(<<>>)),
      containing(Arr(<<Num(1), Str(<<"a">>)>>)),
      containing(Arr(<<Str(<<"a">>), Str(<<"b">>)>>)),
      matching(Undefined),
      matching(Regx(<<Str(<<"a">>)>>)),
      matching(Regx(<<Str(<<"a">>), Str(<<"1">>)>>)),
      startingWith(Undefined),
      startingWith(Str(<<"a">>)),
      endingWith(Num(1)),
      endingWith(Str(<<"b">>)),
      havingValue,
      not(havingValue),
      not(between(Num(1), Num(2))),
      not(containing(Str(<<"a">>))),
      not(matching(Undefined)),
      not(not(between(Num(1), Num(2)))),
      not(not(havingValue)) }

\* the values isMatch is given
Actuals ==
    { Undefined,
      Null,
      Num(-1), Num(0), Num(1), Num(2), Num(3),
      Bool(TRUE), Bool(FALSE),
      Str(<<>>), Str(<<"a">>), Str(<<"1">>), Str(<<"a", "b">>),
      Arr(<<>>),
      Arr(<<Num(1)>>),
      Arr(<<Str(<<"1">>)>>),
      Arr(<<Num(1), Str(<<"a">>)>>),
      Arr(<<Str(<<"a">>), Str(<<"b">>)>>),
      Arr(<<Str(<<"a">>), Null>>),
      Arr(<<Str(<<"a">>), Arr(<<Str(<<"a">>), Str(<<"b">>)>>)>>),
      SetOf(<<Str(<<"a">>), Num(1)>>),
      SetOf(<<Str(<<"b">>)>>),
      MapOf(<<Arr(<<Str(<<"b">>), Str(<<"a">>)>>)>>),
      MapOf(<<Arr(<<Str(<<"a">>), Num(2)>>), Arr(<<Num(1), Str(<<"b">>)>>)>>),
      Obj(<<>>, <<>>),
      Obj(<<"x", "o">>, <<Bool(FALSE), Obj(<<"x">>, <<Str(<<"a">>)>>)>>) }

\* the options a store is constructed with: indicies, and records
\* (delimiter is left to its default, '-')
Options ==
    { [indicies |-> <<>>, records |-> <<>>],
      [indicies |-> <<"u">>, records |-> <<>>],
      [indicies |-> <<"u", "a">>, records |-> <<>>],
      [indicies |-> <<"s">>, records |-> <<>>],
      [indicies |-> <<"u">>,
       records |-> <<Obj(<<"u", "a", "x">>, <<Str(<<"a">>), Bool(TRUE), Num(1)>>),
                     Obj(<<"u", "a", "x">>, <<Str(<<"a">>), Bool(TRUE), Num(2)>>)>>] }

\* ------------------------------------------------------------------------
\* The state machine
\* ------------------------------------------------------------------------
\* the constructor's loop over options.records
RECURSIVE AddAll(_, _, _)
AddAll(st, records, i) ==
    IF i > Len(records) THEN st
    ELSE AddAll(add(st, records[i]).store, records, i + 1)

\* ------------------------------------------------------------------------
\* DynamicDataStoreRecords: the result collection
\* ------------------------------------------------------------------------
\* the characters of the texts of the model in the order of their UTF-16
\* code units; "U+9999" stands for the one character '香'
CharOrder ==
    <<"\"", ",", "-", "0", "1", "2", "3", "4", "5", "6", "7", "8", "9", ":",
      "M", "S", "T", "[", "]",
      "a", "b", "c", "d", "e", "f", "g", "h", "i", "j", "k", "l", "m",
      "n", "o", "p", "q", "r", "s", "t", "u", "v", "w", "x", "y", "z",
      "{", "}", "U+9999">>

CharCode(c) == CHOOSE i \in 1..Len(CharOrder) : CharOrder[i] = c

\* aStr < bStr of two strings: the first code unit in which they differ
\* decides, and a string is less than every string it is a proper prefix of
RECURSIVE StrLess(_, _)
StrLess(a, b) ==
    IF b = <<>> THEN FALSE
    ELSE IF a = <<>> THEN TRUE
    ELSE IF Head(a) = Head(b) THEN StrLess(Tail(a), Tail(b))
    ELSE CharCode(Head(a)) < CharCode(Head(b))

\* _highValueCharacters
highValueCharacters ==
    <<"U+9999", "U+9999", "U+9999", "U+9999", "U+9999", "U+9999">>

\* the comparison text of a value without the high value: null and
\* undefined written as JSON.stringify writes them inside an object
KeyTextOfJson(v) == stringify(v)

\* (v != null) ? JSON.stringify(v, JsonHelper.replacer) : _highValueCharacters
KeyText(v) == IF ~IsNullish(v) THEN stringify(v) ELSE highValueCharacters

\* aStr of the comparator of orderBy: the texts of the record's values for
\* the keys, one after the other, or the text of the whole record when no
\* key is given
RECURSIVE KeysText(_, _, _)
KeysText(a, keys, i) ==
    IF i > Len(keys) THEN <<>>
    ELSE KeyText(Get(a, keys[i])) \o KeysText(a, keys, i + 1)

SortText(a, keys) ==
    IF Len(keys) > 0 THEN KeysText(a, keys, 1) ELSE KeyText(a)

\* the comparator of orderBy: -1 when a is to come before b, 1 when after
compare(a, b, order, keys) ==
    IF StrLess(SortText(a, keys), SortText(b, keys))
    THEN (IF order = "asc" THEN -1 ELSE 1)
    ELSE IF StrLess(SortText(b, keys), SortText(a, keys))
    THEN (IF order = "asc" THEN 1 ELSE -1)
    ELSE 0

\* a sort that is not stable: each element goes in front of the ones it
\* compares equal to
InsertSortedBeforeEqual(sorted, x, order, keys) ==
    LET before == {i \in 1..Len(sorted) : compare(sorted[i], x, order, keys) < 0}
        p == IF before = {} THEN 0
             ELSE CHOOSE i \in before : \A j \in before : j <= i
    IN  SubSeq(sorted, 1, p) \o <<x>> \o SubSeq(sorted, p + 1, Len(sorted))

\* Array.prototype.sort with that comparator. The sort is stable: each
\* element goes behind the last one that does not compare greater
InsertSorted(sorted, x, order, keys) ==
    LET notAfter == {i \in 1..Len(sorted) : compare(sorted[i], x, order, keys) <= 0}
        p == IF notAfter = {} THEN 0
             ELSE CHOOSE i \in notAfter : \A j \in notAfter : j <= i
    IN  SubSeq(sorted, 1, p) \o <<x>> \o SubSeq(sorted, p + 1, Len(sorted))

RECURSIVE SortFrom(_, _, _, _)
SortFrom(recs, i, order, keys) ==
    IF i = 0 THEN <<>>
    ELSE InsertSorted(SortFrom(recs, i - 1, order, keys), recs[i], order, keys)

\* new DynamicDataStoreRecords(indicies, ...inputs). Every collection of
\* the model is constructed with the index fields of the store, so that
\* _indicies of a collection is the same array of fields as indicies
DynamicDataStoreRecords(inputs) ==
    [recs |-> inputs, was |-> inputs, order |-> "", keys |-> <<>>]

\* orderBy(order, ...keys): sorts the collection in place
orderBy(c, order, keys) ==
    [recs |-> SortFrom(c.recs, Len(c.recs), order, keys),
     was |-> c.recs,
     order |-> order,
     keys |-> keys]

\* select of a collection querying the store the collection came from
recordsSelectOfStore(c, query) == select(store, query)

\* DynamicDataStoreRecords.select(query): select on a new DynamicDataStore
\* constructed with _indicies and with the elements of the collection as
\* its records
recordsSelect(c, query) == select(AddAll(<<>>, c.recs, 1), query)

\* arr when the accessor has not been read
NoArray == [live |-> FALSE, val |-> <<>>, read |-> <<>>]

\* coll when the caller holds no DynamicDataStoreRecords
NoRecords == [recs |-> <<>>, was |-> <<>>, order |-> "", keys |-> <<>>]

\* new DynamicDataStore(options)
Init ==
    \E options \in Options :
        /\ indicies = options.indicies
        /\ delim = <<"-">>
        /\ store = AddAll(<<>>, options.records, 1)
        /\ op = "idle"
        /\ arg = Undefined
        /\ qry = Undefined
        /\ ret = 0
        /\ out = <<>>
        /\ pre = <<>>
        /\ arr = NoArray
        /\ txt = <<>>
        /\ err = FALSE
        /\ coll = NoRecords
        /\ mat = Undefined

Add ==
    /\ op = "idle"
    /\ \E record \in AddRecords :
        LET r == add(store, record)
        IN  /\ Len(r.store) <= MaxRecords
            /\ store' = r.store
            /\ op' = "add"
            /\ arg' = record
            /\ qry' = Undefined
            /\ ret' = r.ret
            /\ out' = <<>>
            /\ pre' = store
    /\ UNCHANGED <<indicies, delim, arr, txt, err, coll, mat>>

Update ==
    /\ op = "idle"
    /\ \E updates \in UpdateRecords, query \in Queries :
        LET r == update(store, updates, query)
        IN  /\ Len(r.store) <= MaxRecords
            /\ store' = r.store
            /\ op' = "update"
            /\ arg' = updates
            /\ qry' = query
            /\ ret' = r.ret
            /\ out' = <<>>
            /\ pre' = store
    /\ UNCHANGED <<indicies, delim, arr, txt, err, coll, mat>>

Select ==
    /\ op = "idle"
    /\ \E query \in Queries :
        /\ op' = "select"
        /\ arg' = Undefined
        /\ qry' = query
        /\ out' = select(store, query)
        /\ ret' = Len(select(store, query))
        /\ pre' = store
    /\ UNCHANGED <<indicies, delim, store, arr, txt, err, coll, mat>>

Size ==
    /\ op = "idle"
    /\ \E query \in Queries :
        /\ op' = "size"
        /\ arg' = Undefined
        /\ qry' = query
        /\ out' = <<>>
        /\ ret' = size(store, query)
        /\ pre' = store
    /\ UNCHANGED <<indicies, delim, store, arr, txt, err, coll, mat>>

Delete ==
    /\ op = "idle"
    /\ \E query \in Queries \ {Undefined} :
        LET r == delete(store, query)
        IN  /\ store' = r.store
            /\ op' = "delete"
            /\ arg' = Undefined
            /\ qry' = query
            /\ out' = r.out
            /\ ret' = Len(r.out)
            /\ pre' = store
    /\ UNCHANGED <<indicies, delim, arr, txt, err, coll, mat>>

Clear ==
    /\ op = "idle"
    /\ store' = clear(store).store
    /\ op' = "clear"
    /\ arg' = Undefined
    /\ qry' = Undefined
    /\ out' = clear(store).out
    /\ ret' = Len(clear(store).out)
    /\ pre' = store
    /\ UNCHANGED <<indicies, delim, arr, txt, err, coll, mat>>

\* the caller assigns to a property of a record that select returned: the
\* assignment changes that instance, wherever it is held
Mutate ==
    /\ op = "select"
    /\ \E i \in 1..Len(out), a \in Assignments :
        /\ out' = [out EXCEPT ![i].rec = SetProp(out[i].rec, a.k, a.v)]
        /\ store' = IF MapHas(store, out[i].ref)
                    THEN MapSet(store, out[i].ref, SetProp(out[i].rec, a.k, a.v))
                    ELSE store
        /\ arg' = Obj(<<a.k>>, <<a.v>>)
    /\ op' = "mutate"
    /\ UNCHANGED <<indicies, delim, qry, ret, pre, arr, txt, err, coll, mat>>

\* the caller reads the indicies accessor
Indicies ==
    /\ op = "idle"
    /\ op' = "indicies"
    /\ arr' = [live |-> getIndicies(indicies).live,
               val |-> getIndicies(indicies).val,
               read |-> getIndicies(indicies).val]
    /\ pre' = store
    /\ UNCHANGED <<indicies, delim, store, arg, qry, ret, out, txt, err, coll, mat>>

\* the caller removes an element of the array the accessor returned
\* (splice(i, 1)): the removal changes that instance, wherever it is held
Splice ==
    /\ op = "indicies"
    /\ \E i \in 1..Len(arr.val) :
        LET rest == SubSeq(arr.val, 1, i - 1) \o SubSeq(arr.val, i + 1, Len(arr.val))
        IN  /\ arr' = [arr EXCEPT !.val = rest]
            /\ indicies' = IF arr.live THEN rest ELSE indicies
    /\ op' = "splice"
    /\ UNCHANGED <<delim, store, arg, qry, ret, out, pre, txt, err, coll, mat>>

GetIndex ==
    /\ op = "idle"
    /\ \E record \in IndexInputs :
        /\ arg' = record
        /\ txt' = getIndex(record)
    /\ op' = "getIndex"
    /\ pre' = store
    /\ UNCHANGED <<indicies, delim, store, qry, ret, out, arr, err, coll, mat>>

\* parseIndex of the key getIndex makes of a partial record (arg), or of a
\* key that getIndex did not make (arg undefined)
ParseIndex ==
    /\ op = "idle"
    /\ \E input \in {[from |-> record, key |-> getIndex(record)] :
                        record \in IndexInputs}
                  \cup {[from |-> Undefined, key |-> key] : key \in MalformedKeys} :
        /\ arg' = input.from
        /\ txt' = input.key
        /\ err' = parseIndex(input.key).err
        /\ out' = IF parseIndex(input.key).err THEN <<>>
                  ELSE <<[ref |-> <<>>, rec |-> parseIndex(input.key).parsed]>>
    /\ op' = "parseIndex"
    /\ pre' = store
    /\ UNCHANGED <<indicies, delim, store, qry, ret, arr, coll, mat>>

\* the caller constructs a result collection
NewRecords ==
    /\ op = "idle"
    /\ \E inputs \in Inputs :
        coll' = DynamicDataStoreRecords(inputs)
    /\ op' = "records"
    /\ pre' = store
    /\ UNCHANGED <<indicies, delim, store, arg, qry, ret, out, arr, txt, err, mat>>

\* select of the collection the caller holds
RecordsSelect ==
    /\ op = "records"
    /\ \E query \in Queries :
        /\ qry' = query
        /\ out' = recordsSelect(coll, query)
        /\ ret' = Len(recordsSelect(coll, query))
    /\ op' = "records.select"
    /\ coll' = [coll EXCEPT !.was = coll.recs]
    /\ UNCHANGED <<indicies, delim, store, arg, pre, arr, txt, err, mat>>

\* orderBy of the collection the caller holds
OrderBy ==
    /\ op = "records"
    /\ \E order \in {"asc", "desc"}, keys \in OrderKeys :
        coll' = orderBy(coll, order, keys)
    /\ op' = "orderBy"
    /\ UNCHANGED <<indicies, delim, store, arg, qry, ret, out, pre, arr, txt, err, mat>>

\* isMatch of a matcher; no isMatch has a statement that throws
IsMatch ==
    /\ op = "idle"
    /\ \E m \in Matchers, actual \in Actuals :
        /\ mat' = m
        /\ arg' = actual
        /\ ret' = IF isMatch(m, actual) THEN 1 ELSE 0
    /\ op' = "isMatch"
    /\ err' = FALSE
    /\ UNCHANGED <<indicies, delim, store, qry, out, pre, arr, txt, coll>>

\* Query.filterBy(query, ...records); arg is the array of the records
FilterBy ==
    /\ op = "idle"
    /\ \E query \in FilterQueries, records \in Inputs :
        /\ qry' = query
        /\ arg' = Arr(records)
        /\ out' = filterBy(query, records)
        /\ ret' = Len(filterBy(query, records))
    /\ op' = "filterBy"
    /\ pre' = store
    /\ UNCHANGED <<indicies, delim, store, arr, txt, err, coll, mat>>

\* the caller is done with what the last call returned
Return ==
    /\ op # "idle"
    /\ op' = "idle"
    /\ arg' = Undefined
    /\ qry' = Undefined
    /\ ret' = 0
    /\ out' = <<>>
    /\ pre' = <<>>
    /\ arr' = NoArray
    /\ txt' = <<>>
    /\ err' = FALSE
    /\ coll' = NoRecords
    /\ mat' = Undefined
    /\ UNCHANGED <<indicies, delim, store>>

Next ==
    \/ Add
    \/ Update
    \/ Select
    \/ Size
    \/ Delete
    \/ Clear
    \/ Mutate
    \/ Indicies
    \/ Splice
    \/ GetIndex
    \/ ParseIndex
    \/ Return

Spec == Init /\ [][Next]_vars

\* the result collection on its own: a caller that constructs collections
\* and calls select and orderBy on them, next to a store it leaves alone
RecordsNext ==
    \/ NewRecords
    \/ RecordsSelect
    \/ OrderBy
    \/ FilterBy
    \/ Return

RecordsSpec == Init /\ [][RecordsNext]_vars

\* the matchers on their own: a caller that calls isMatch
MatchNext ==
    \/ IsMatch
    \/ Return

MatchSpec == Init /\ [][MatchNext]_vars

\* ------------------------------------------------------------------------
\* Properties
\* ------------------------------------------------------------------------
\* the records of a sequence of Map entries or of returned records
Records(st) == [i \in 1..Len(st) |-> st[i].rec]

\* record restricted to the index fields
IndexFieldsOf(record) ==
    Obj(indicies, [i \in 1..Len(indicies) |-> Get(record, indicies[i])])

\* C1: no two records that are in the store at the same time have the same
\* derived index key, that is the same values for all the index fields
C1_UniqueDerivedKeys ==
    \A i, j \in 1..Len(store) :
        (/\ i # j
         /\ hasAllIndexProperties(store[i].rec)
         /\ hasAllIndexProperties(store[j].rec))
            => getIndex(store[i].rec) # getIndex(store[j].rec)

\* C2: add of a record whose derived key is already a key of the store
\* returns false and leaves the store as it was, the record stored under
\* that key included
C2_AddCollisionRejected ==
    (op = "add" /\ MapHas(pre, getIndex(arg)))
        => /\ ret = 0
           /\ store = pre
           /\ MapGet(store, getIndex(arg)) = MapGet(pre, getIndex(arg))

\* a colliding add has returned: the record offered differs from the one
\* stored under its key
C2_Witness ==
    /\ op = "add"
    /\ MapHas(pre, getIndex(arg))
    /\ MapGet(pre, getIndex(arg)) # arg
    /\ hasAllIndexProperties(arg)

\* C3: add of a record that has a value for every index field and whose
\* derived key is not in the store returns true, makes size() one larger,
\* and select with the record's index-field values then returns exactly
\* the added record
C3_AddInserts ==
    (op = "add" /\ hasAllIndexProperties(arg) /\ ~MapHas(pre, getIndex(arg)))
        => /\ ret = 1
           /\ size(store, Undefined) = size(pre, Undefined) + 1
           /\ Records(select(store, IndexFieldsOf(arg))) = <<arg>>

\* C4: with index fields configured, add of a record in which an index
\* field is missing or null returns false and leaves the store as it was
C4_AddMissingIndexRejected ==
    (/\ op = "add"
     /\ Len(indicies) > 0
     /\ \E i \in 1..Len(indicies) : IsNullish(Get(arg, indicies[i])))
        => ret = 0 /\ store = pre

\* C5: after a record returned by select has been assigned to, every
\* select and size gives what it gave when that select was called
C5_CloneIsolation ==
    op = "mutate"
        => \A q \in Queries :
              /\ select(store, q) = select(pre, q)
              /\ size(store, q) = size(pre, q)

\* a record that select returned has been changed by the caller
C5_Witness ==
    /\ op = "mutate"
    /\ Len(out) > 0
    /\ Records(out) # Records(select(pre, qry))

\* the records update is to act on: those its query finds, or, without a
\* query, those its updates object finds
Targeted(st, updates, query) ==
    performQuery(st, IF IsNullish(query) THEN updates ELSE query)

\* C6: update(updates) without a query, updates holding a literal for every
\* index field, acts on the one record stored under getIndex(updates): it
\* returns 1 and that record takes the values of updates, or returns 0 when
\* there is no such record; every other record is as it was
C6_UpdateByKey ==
    (op = "update" /\ IsNullish(qry) /\ hasAllIndexProperties(arg))
        => LET key == getIndex(arg)
           IN  IF MapHas(pre, key)
               THEN /\ ret = 1
                    /\ store = MapSet(pre, key, Spread(MapGet(pre, key), arg))
               ELSE /\ ret = 0
                    /\ store = pre

\* C7: update(updates, query) returns the number of stored records that
\* match the query, each of them is afterwards stored with the updates
\* applied, and every record that does not match is stored as it was
C7_UpdateFanOut ==
    (op = "update" /\ ~IsNullish(qry))
        => LET matched == {i \in 1..Len(pre) : PassesFrom(qry, pre[i].rec, 1)}
           IN  /\ ret = Cardinality(matched)
               /\ \A i \in matched :
                     \E j \in 1..Len(store) :
                         store[j].rec = Spread(pre[i].rec, arg)
               /\ \A i \in (1..Len(pre)) \ matched :
                     \E j \in 1..Len(store) : store[j] = pre[i]

\* C8: after update, the entry of every targeted record holds that record
\* with the fields of updates overwritten and every other field kept
C8_UpdateMerge ==
    op = "update"
        => LET found == Targeted(pre, arg, qry)
           IN  \A k \in 1..Len(found) :
                  LET after == MapGet(store, found[k].ref)
                  IN  /\ \A f \in 1..Len(arg.ks) :
                            Get(after, arg.ks[f]) = arg.e[f]
                      /\ \A f \in 1..Len(found[k].rec.ks) :
                            ~HasProp(arg, found[k].rec.ks[f])
                                => Get(after, found[k].rec.ks[f]) = found[k].rec.e[f]

\* C9: when update(updates, query) changes an index field of a targeted
\* record, the merged record is stored under the key derived from the
\* merged record, and select with its new index-field values returns it
C9_UpdateRekeys ==
    (op = "update" /\ ~IsNullish(qry))
        => LET found == Targeted(pre, arg, qry)
           IN  \A k \in 1..Len(found) :
                  LET merged == Spread(found[k].rec, arg)
                  IN  (/\ hasAllIndexProperties(found[k].rec)
                       /\ hasAllIndexProperties(merged)
                       /\ getIndex(merged) # getIndex(found[k].rec))
                          => /\ MapGet(store, getIndex(merged)) = merged
                             /\ Records(select(store, IndexFieldsOf(merged)))
                                    = <<JsonClone(merged)>>

\* C10: when update gives a targeted record the index-field values of a
\* different record already in the store, afterwards exactly one stored
\* record has those index-field values and it is the updated record
C10_LastWriteWins ==
    op = "update"
        => LET found == Targeted(pre, arg, qry)
           IN  \A k \in 1..Len(found) :
                  LET merged == Spread(found[k].rec, arg)
                      same == {j \in 1..Len(store) :
                                  getIndex(store[j].rec) = getIndex(merged)}
                  IN  (/\ hasAllIndexProperties(found[k].rec)
                       /\ hasAllIndexProperties(merged)
                       /\ getIndex(merged) # getIndex(found[k].rec)
                       /\ \E j \in 1..Len(pre) :
                             /\ pre[j].key # found[k].ref
                             /\ hasAllIndexProperties(pre[j].rec)
                             /\ getIndex(pre[j].rec) = getIndex(merged))
                          => /\ Cardinality(same) = 1
                             /\ \A j \in same : store[j].rec = merged

\* C11: update(updates) without a query, updates holding no value for any
\* index field, applies the updates to every stored record and returns the
\* number of stored records
C11_UpdateAll ==
    (/\ op = "update"
     /\ IsNullish(qry)
     /\ \A i \in 1..Len(indicies) : IsNullish(Get(arg, indicies[i])))
        => /\ ret = Len(pre)
           /\ Records(store) = [i \in 1..Len(pre) |-> Spread(pre[i].rec, arg)]

\* C12: an update that targets no stored record returns 0, throws nothing
\* and leaves the store as it was
C12_UpdateSoftFailure ==
    (op = "update" /\ Targeted(pre, arg, qry) = <<>>)
        => /\ ret = 0
           /\ ~err
           /\ store = pre

\* an update of a store that holds records has targeted none of them
C12_Witness ==
    /\ op = "update"
    /\ Len(pre) > 0
    /\ Targeted(pre, arg, qry) = <<>>

\* C13: delete(query) returns exactly the stored records that match the
\* query, removes each of them, leaves every other record in place, and
\* size() afterwards is size() before minus the number of records returned
C13_DeleteReturnsMatches ==
    op = "delete"
        => /\ Records(out)
                = Records(SelectSeq(pre, LAMBDA en : PassesFrom(qry, en.rec, 1)))
           /\ store = SelectSeq(pre, LAMBDA en : ~PassesFrom(qry, en.rec, 1))
           /\ size(store, Undefined) = size(pre, Undefined) - Len(out)

\* C14: clear() returns every record that was in the store when it was
\* called and leaves the store empty: size() is 0 and select() returns
\* nothing
C14_ClearReturnsAll ==
    op = "clear"
        => /\ Records(out) = Records(pre)
           /\ size(store, Undefined) = 0
           /\ select(store, Undefined) = <<>>

\* clear has emptied a store that held two records
C14_Witness ==
    /\ op = "clear"
    /\ Len(pre) = 2
    /\ Len(out) = 2
    /\ store = <<>>

C16_IndiciesDefensiveCopy ==
    [][op' = "splice"
          => /\ getIndicies(indicies)' = getIndicies(indicies)
             /\ getIndicies(indicies').val = arr.read
             /\ \A record \in IndexInputs : getIndex(record)' = getIndex(record)]_vars

\* the caller has removed an element of the array the accessor returned
C16_Witness ==
    /\ op = "splice"
    /\ Len(arr.read) = 2
    /\ Len(arr.val) = 1

\* C17: for a partial record that has a value for every index field,
\* parseIndex of the key getIndex makes of it returns the record restricted
\* to the index fields. Stated for the records whose encoded index values
\* do not hold the delimiter, the ones a key can be split back into
C17_KeyRoundTrip ==
    (/\ op = "parseIndex"
     /\ hasAllIndexProperties(arg)
     /\ \A i \in 1..Len(indicies) :
           Len(Split(stringify(Get(arg, indicies[i])), delim)) = 1)
        => /\ ~err
           /\ Records(out) = <<IndexFieldsOf(arg)>>

\* C18: parseIndex of a key whose number of segments between delimiters is
\* not the number of index fields throws: it returns nothing, no partly
\* filled record either, and the store is as it was
C18_ParseIndexRejects ==
    (op = "parseIndex" /\ Len(Split(txt, delim)) # Len(indicies))
        => /\ err
           /\ out = <<>>
           /\ store = pre

\* parseIndex has been given a key with fewer or more segments than the
\* store has index fields, at least one of them a JSON value
C18_Witness ==
    /\ op = "parseIndex"
    /\ Len(indicies) > 0
    /\ Len(Split(txt, delim)) # Len(indicies)
    /\ JSONparse(Split(txt, delim)[1]).ok
    /\ err

\* C19: getIndex yields no key when an index field of the partial record is
\* missing, null or a matcher, and yields a key when every index field
\* holds a literal that is not null
C19_GetIndexAbsent ==
    op = "getIndex"
        => ((txt = <<>>)
              <=> \E i \in 1..Len(indicies) :
                     \/ IsNullish(Get(arg, indicies[i]))
                     \/ IsMatcher(Get(arg, indicies[i])))

\* C20: select with a query that does not hold a literal for every index
\* field returns exactly the stored records that match the query field by
\* field: a matcher by its isMatch, a nested object by matching the
\* record's field, which must not be null, against it, anything else by
\* strict equality
C20_QuerySemantics ==
    (op = "select" /\ ~IsNullish(qry) /\ ~hasAllIndexProperties(qry))
        => LET matched == SelectSeq(pre, LAMBDA en : recordMatches(qry, en.rec))
           IN  Records(out) = [i \in 1..Len(matched) |-> JsonClone(matched[i].rec)]


C23_RecordsSelectFilters ==
    op = "records.select"
        => LET matched == SelectSeq(coll.was,
                                     LAMBDA r : IsNullish(qry) \/ recordMatches(qry, r))
           IN  /\ Records(out) = [i \in 1..Len(matched) |-> JsonClone(matched[i])]
               /\ IsNullish(qry) => Len(out) = Len(coll.was)


\* C24: after orderBy('asc', x) every record whose x is missing or null
\* stands after every record whose x is defined, after orderBy('desc', x)
\* before every such record
C24_NullsSortLast ==
    (op = "orderBy" /\ Len(coll.keys) = 1)
        => \A i, j \in 1..Len(coll.recs) :
              (/\ IsNullish(Get(coll.recs[i], coll.keys[1]))
               /\ ~IsNullish(Get(coll.recs[j], coll.keys[1])))
                  => IF coll.order = "asc" THEN j < i ELSE i < j

\* orderBy with one key has moved a record without a value for the key
\* from the front of the collection behind two records that have one
C24_Witness ==
    /\ op = "orderBy"
    /\ coll.order = "asc"
    /\ coll.keys = <<"y">>
    /\ Len(coll.recs) = 3
    /\ IsNullish(Get(coll.was[1], "y"))
    /\ IsNullish(Get(coll.recs[3], "y"))
    /\ ~IsNullish(Get(coll.recs[2], "y"))

\* the text orderBy compares a record by for one key
FieldText(r, k) == KeyText(Get(r, k))

\* C25: after orderBy('asc', k1, k2) the records are in the order of k1,
\* and records with the same k1 are in the order of k2; after
\* orderBy('desc', k1, k2) they are in the reverse order. The order of a
\* key is that of the text its value is compared by
C25_MultiKeyOrder ==
    (op = "orderBy" /\ Len(coll.keys) = 2)
        => \A i, j \in 1..Len(coll.recs) :
              LET first == IF coll.order = "asc" THEN coll.recs[i] ELSE coll.recs[j]
                  second == IF coll.order = "asc" THEN coll.recs[j] ELSE coll.recs[i]
                  k1 == coll.keys[1]
                  k2 == coll.keys[2]
              IN  i < j
                    => /\ ~StrLess(FieldText(second, k1), FieldText(first, k1))
                       /\ FieldText(first, k1) = FieldText(second, k1)
                             => ~StrLess(FieldText(second, k2), FieldText(first, k2))


\* C26: for a number n, between(min, max).isMatch(n) is true exactly when
\* min <= n <= max, greaterThan(min).isMatch(n) exactly when n > min and
\* lessThan(max).isMatch(n) exactly when n < max; a bound that is omitted
\* is -Infinity (min) or Infinity (max)
C26_NumericBounds ==
    (op = "isMatch" /\ arg.t = "number")
        => /\ mat.t = "Between"
                => (ret = 1 <=> /\ IsNullish(mat.e[1]) \/ mat.e[1].n <= arg.n
                                /\ IsNullish(mat.e[2]) \/ arg.n <= mat.e[2].n)
           /\ mat.t = "GreaterThan"
                => (ret = 1 <=> IsNullish(mat.e[1]) \/ arg.n > mat.e[1].n)
           /\ mat.t = "LessThan"
                => (ret = 1 <=> IsNullish(mat.e[1]) \/ arg.n < mat.e[1].n)

\* greaterThan(1) has rejected 1, the bound itself
C26_Witness ==
    /\ op = "isMatch"
    /\ mat = greaterThan(Num(1))
    /\ arg = Num(1)
    /\ ret = 0

\* the matcher classes that return false for null and undefined
NullRejecting ==
    {"Between", "GreaterThan", "LessThan", "Containing", "Matching",
     "StartingWith", "EndingWith"}

\* C27: isMatch of every matcher, Not and the matchers made with it
\* included, returns false for null and for undefined and never throws;
\* HavingValue returns true exactly when the value is not null or undefined
C27_TotalOnNull ==
    op = "isMatch"
        => /\ ~err
           /\ IsNullish(arg) => ret = 0
           /\ mat.t = "HavingValue" => (ret = 1 <=> ~IsNullish(arg))

\* C27, amended: isMatch never throws; Between, GreaterThan, LessThan,
\* Containing, Matching, StartingWith and EndingWith return false for null
\* and for undefined; HavingValue returns true exactly when the value is
\* not null or undefined; not(m) of any of these eight returns true for
\* null and for undefined
C27_TotalOnNullButNot ==
    op = "isMatch"
        => /\ ~err
           /\ (IsNullish(arg) /\ mat.t \in NullRejecting) => ret = 0
           /\ mat.t = "HavingValue" => (ret = 1 <=> ~IsNullish(arg))
           /\ (/\ IsNullish(arg)
               /\ mat.t = "Not"
               /\ mat.e[1].t \in NullRejecting \cup {"HavingValue"}) => ret = 1

\* not(between(1, 2)) has been given null and has returned true
C27_Witness ==
    /\ op = "isMatch"
    /\ arg = Null
    /\ mat = not(between(Num(1), Num(2)))
    /\ ret = 1

\* C28: not(m).isMatch(a) is the negation of m.isMatch(a) for every
\* matcher m and every value a, null and undefined included, and
\* not(not(m)).isMatch(a) is m.isMatch(a)
C28_NotNegates ==
    (op = "isMatch" /\ mat.t = "Not")
        => /\ ret = 1 <=> ~isMatch(mat.e[1], arg)
           /\ mat.e[1].t = "Not" => (ret = 1 <=> isMatch(mat.e[1].e[1], arg))

\* not(not(m)) has been given null, for an m that is not HavingValue, and
\* has returned false
C28_Witness ==
    /\ op = "isMatch"
    /\ arg = Null
    /\ mat.t = "Not"
    /\ mat.e[1].t = "Not"
    /\ mat.e[1].e[1].t = "Between"
    /\ ret = 0

\* C29: containing(expected).isMatch(actual) for an array actual, or a Set
\* or a Map taken by its values: when expected is an array, true exactly
\* when every element of expected is an element of actual; when expected
\* is a number, a string or a boolean, true exactly when it is an element
\* of actual. Elements are numbers, strings and booleans, the same when
\* they have the same type and value
C29_ContainingEvery ==
    (op = "isMatch" /\ mat.t = "Containing" /\ arg.t \in {"array", "Set", "Map"})
        => LET expected == mat.e[1]
               elems == {Values(arg)[j] : j \in 1..Len(Values(arg))}
           IN  /\ (/\ expected.t = "array"
                   /\ \A i \in 1..Len(expected.e) : IsPrimitive(expected.e[i]))
                     => (ret = 1 <=> \A i \in 1..Len(expected.e) :
                                        expected.e[i] \in elems)
               /\ IsPrimitive(expected) => (ret = 1 <=> expected \in elems)

\* containing(['a', 'b']) has rejected a Set that holds one of the two
C29_Witness ==
    /\ op = "isMatch"
    /\ mat = containing(Arr(<<Str(<<"a">>), Str(<<"b">>)>>))
    /\ arg = SetOf(<<Str(<<"a">>), Num(1)>>)
    /\ ret = 0

\* C30: matching(pattern).isMatch(actual) for an array, a Set or a Map is
\* true exactly when the pattern matches the string form of every element
\* (every value of a Map), and for a number, string or boolean exactly when
\* the pattern matches its string form
C30_MatchingEvery ==
    (op = "isMatch" /\ mat.t = "Matching")
        => /\ arg.t \in {"array", "Set", "Map"}
                => (ret = 1 <=> \A j \in 1..Len(Values(arg)) :
                                   test(mat.e[1], ToStr(Values(arg)[j])))
           /\ IsPrimitive(arg) => (ret = 1 <=> test(mat.e[1], ToStr(arg)))

\* does the matcher accept an element of a collection: a number, string or
\* boolean by its string form, a collection inside the collection by its
\* own elements, nothing else
RECURSIVE ElementMatches(_, _)
ElementMatches(regx, el) ==
    IF IsPrimitive(el) THEN test(regx, ToStr(el))
    ELSE IF el.t \in {"array", "Set", "Map"}
    THEN \A j \in 1..Len(Values(el)) : ElementMatches(regx, Values(el)[j])
    ELSE FALSE

\* C30, amended: matching(pattern).isMatch(actual) for an array, a Set or a
\* Map is true exactly when every element (every value of a Map) is
\* matched: a number, string or boolean element when the pattern matches
\* its string form, an element that is an array, a Set or a Map when all
\* of its elements are matched, and a null, undefined or plain object
\* element never; for a number, string or boolean actual it is true exactly
\* when the pattern matches its string form
C30_MatchingEveryElement ==
    (op = "isMatch" /\ mat.t = "Matching")
        => /\ arg.t \in {"array", "Set", "Map"}
                => (ret = 1 <=> \A j \in 1..Len(Values(arg)) :
                                   ElementMatches(mat.e[1], Values(arg)[j]))
           /\ IsPrimitive(arg) => (ret = 1 <=> test(mat.e[1], ToStr(arg)))

\* matching(/a/) has rejected an array of which it matches one element
C30_Witness ==
    /\ op = "isMatch"
    /\ mat = matching(Regx(<<Str(<<"a">>)>>))
    /\ arg = Arr(<<Str(<<"a">>), Str(<<"b">>)>>)
    /\ ret = 0


\* is v an instance of one of the nine matcher classes
IsAnyMatcher(v) == IsMatcher(v) \/ v.t \in {"HavingValue", "Not"}

\* does the record match the query, field by field: a matcher by its
\* isMatch, a nested object by matching the record's field, which must not
\* be null, against it, anything else by strict equality
RECURSIVE MatchesFrom(_, _, _)
MatchesFrom(query, record, i) ==
    IF i > Len(ObjectKeys(query)) THEN TRUE
    ELSE LET q == Prop(query, ObjectKeys(query)[i])
             actual == Prop(record, ObjectKeys(query)[i])
         IN  /\ IF IsAnyMatcher(q) THEN isMatch(q, actual)
                ELSE IF TypeOf(q) = "object" /\ q.t # "null"
                THEN ~IsNullish(actual) /\ MatchesFrom(q, actual, 1)
                ELSE StrictEq(q, actual)
             /\ MatchesFrom(query, record, i + 1)

\* C31: Query.filterBy(query, ...records) returns, in the order they were
\* given, exactly the records that match the query, every record when
\* there is no query; what it returns are the instances it was given, not
\* clones, and no store is read or changed
C31_FilterByFilters ==
    op = "filterBy"
        => /\ out = SelectSeq([i \in 1..Len(arg.e) |->
                                  [ref |-> NatText(i), rec |-> arg.e[i]]],
                              LAMBDA en : IsNullish(qry)
                                          \/ MatchesFrom(qry, en.rec, 1))
           /\ store = pre


\* are two values structurally equal: the same fields with the same
\* values, in whatever order the fields were written
RECURSIVE StructEq(_, _)
StructEq(a, b) ==
    IF a.t = "object" /\ b.t = "object"
    THEN /\ {a.ks[i] : i \in 1..Len(a.ks)} = {b.ks[i] : i \in 1..Len(b.ks)}
         /\ \A i \in 1..Len(a.ks) : StructEq(a.e[i], Get(b, a.ks[i]))
    ELSE IF a.t = b.t /\ a.t \in {"array", "Set", "Map"}
    THEN /\ Len(a.e) = Len(b.e)
         /\ \A i \in 1..Len(a.e) : StructEq(a.e[i], b.e[i])
    ELSE a = b

\* C32: with no index fields the store is a set of whole records: add
\* returns false exactly when a structurally equal record is in the store,
\* whatever the order its fields were written in, and otherwise stores the
\* record next to the records that were there
C32_WholeRecordSet ==
    (op = "add" /\ indicies = <<>>)
        => /\ ret = 0 <=> \E i \in 1..Len(pre) : StructEq(pre[i].rec, arg)
           /\ ret = 1 => Records(store) = Append(Records(pre), arg)



\* does the query hold a literal that is not null for every index field
SuppliesIndex(query) ==
    /\ query.t = "object"
    /\ Len(indicies) > 0
    /\ \A i \in 1..Len(indicies) :
          /\ HasProp(query, indicies[i])
          /\ ~IsNullish(Get(query, indicies[i]))
          /\ ~IsAnyMatcher(Get(query, indicies[i]))

\* C33: for a query that holds a non-null literal for every index field,
\* with or without further fields, select, size and delete act on exactly
\* the stored records a scan finds to match every field of the query
C33_FastPathAgrees ==
    (op \in {"select", "size", "delete"} /\ SuppliesIndex(qry))
        => LET scan == SelectSeq(pre, LAMBDA en : MatchesFrom(qry, en.rec, 1))
           IN  /\ op = "select"
                    => Records(out) = [i \in 1..Len(scan) |-> JsonClone(scan[i].rec)]
               /\ op = "size" => ret = Len(scan)
               /\ op = "delete"
                    => /\ Records(out) = Records(scan)
                       /\ store = SelectSeq(pre, LAMBDA en : ~MatchesFrom(qry, en.rec, 1))



\* C34: every stored record sits in the table under the key that getIndex
\* derives from the field values the record has now
C34_KeyConsistency ==
    \A i \in 1..Len(store) : store[i].key = getIndex(store[i].rec)



\* C35: update leaves the number of stored records as it was: size()
\* after update(updates, query) is size() before it
C35_UpdateKeepsSize ==
    op = "update" => size(store, Undefined) = size(pre, Undefined)



\* C36: once delete(query) has returned, size(query) is 0 and select()
\* returns none of the records delete returned
C36_DeleteEffective ==
    op = "delete"
        => /\ size(store, qry) = 0
           /\ \A i \in 1..Len(out), j \in 1..Len(select(store, Undefined)) :
                 select(store, Undefined)[j].rec # JsonClone(out[i].rec)



\* C37: in a store with index fields, once add(r) has returned true, a
\* delete whose query is r's index field values returns exactly r and
\* leaves the store with the contents it had before the add, and add(r)
\* on that store returns true again
C37_AddDeleteRoundTrip ==
    (op = "add" /\ ret = 1 /\ Len(indicies) > 0)
        => LET deleted == delete(store, IndexFieldsOf(arg))
           IN  /\ Records(deleted.out) = <<arg>>
               /\ deleted.store = pre
               /\ add(deleted.store, arg).ret = 1

\* C38: update(updates, query) called a second time leaves the store with
\* the records and the count the first call left
C38_UpdateIdempotent ==
    op = "update" => update(store, arg, qry).store = store



\* how many times the record stands in the sequence
Multiplicity(recs, r) == Cardinality({i \in 1..Len(recs) : recs[i] = r})

\* C39: orderBy leaves the collection holding the records it held, each as
\* many times as before and none altered, and the same orderBy applied
\* again leaves the order as it is
C39_OrderByPermutes ==
    op = "orderBy"
        => /\ Len(coll.recs) = Len(coll.was)
           /\ \A i \in 1..Len(coll.was) :
                 Multiplicity(coll.recs, coll.was[i]) = Multiplicity(coll.was, coll.was[i])
           /\ orderBy(coll, coll.order, coll.keys).recs = coll.recs

\* orderBy has reordered a collection of three records of which two
\* different ones are compared by the same text
C39_Witness ==
    /\ op = "orderBy"
    /\ Len(coll.recs) = 3
    /\ coll.recs # coll.was
    /\ \E i, j \in 1..3 :
          /\ i < j
          /\ coll.recs[i] # coll.recs[j]
          /\ compare(coll.recs[i], coll.recs[j], coll.order, coll.keys) = 0

====
